---- MODULE Spec2Model ----
(***************************************************************************)
(* QCustomLog (src/qcustomlog.cpp, src/qcustomlog.h): a process-local log  *)
(* sink.  Producer threads call messageHandler, which formats a record,    *)
(* enqueues its line into m_logBuffer under m_logBufferMutex and, for      *)
(* Critical/Fatal records (or when buffering is off), calls flushBuffer    *)
(* inline.  A single-shot QTimer living in the main thread calls           *)
(* flushBuffer(false) periodically.  flushBuffer drains the buffer under   *)
(* the buffer mutex, then takes m_logFileMutex, runs rotateLogFiles and    *)
(* appends the drained lines to <app>_0.log.                               *)
(*                                                                         *)
(* File names are modelled structurally: <<"log", n>> is <app>_n.log with  *)
(* a canonical decimal suffix, <<"temp", n>> is <app>_n.log.temp,          *)
(* <<"junk", n>> is <app>_<non-number>.log.  The application name is       *)
(* assumed to hold no '_' and no '.'.  Sizes are bytes.                    *)
(***************************************************************************)
EXTENDS Integers, Sequences, FiniteSets, TLC

(* ------------------------------------------------------------------ *)
(* Program constants                                                   *)
(* ------------------------------------------------------------------ *)
DefaultMaxLogFiles == 10

DefaultMaxLogFileSize == 10485760

MinMaxLogFiles == 2

MinMaxLogFileSize == 102400

MinFlushTime == 1000

(* ------------------------------------------------------------------ *)
(* Bounds of the model                                                 *)
(* ------------------------------------------------------------------ *)
\* number of records the producers hand to messageHandler in one behaviour
MaxLines == 3

\* number of injected I/O failures in one behaviour
MaxFaults == 1

\* highest numeric suffix of a log file found in the directory at start
MaxIndex == 5

\* bytes of one formatted line, terminator included
LineBytes == 64

\* one measured duration, in ticks
Tick == 100

\* number of records handed in where every configuration is explored
PolicyLines == 2

(* ------------------------------------------------------------------ *)
(* Severity levels: LevelPolicy                                        *)
(* ------------------------------------------------------------------ *)
Levels == {"Debug", "Info", "Warning", "Critical", "Fatal"}

\* a slip: the Critical case repeats the test of the Warning case
levelGreaterOrEqualSlip(level, minLevel) ==
  IF level = minLevel THEN TRUE
  ELSE CASE minLevel = "Debug" -> TRUE
         [] minLevel = "Info" -> IF level = "Debug" THEN FALSE ELSE TRUE
         [] minLevel = "Warning" ->
              IF level = "Debug" \/ level = "Info" THEN FALSE ELSE TRUE
         [] minLevel = "Critical" ->
              IF level = "Debug" \/ level = "Info" THEN FALSE ELSE TRUE
         [] minLevel = "Fatal" -> IF level = "Fatal" THEN TRUE ELSE FALSE
         [] OTHER -> TRUE

levelGreaterOrEqual(level, minLevel) ==
  IF level = minLevel THEN TRUE
  ELSE CASE minLevel = "Debug" -> TRUE
         [] minLevel = "Info" -> IF level = "Debug" THEN FALSE ELSE TRUE
         [] minLevel = "Warning" ->
              IF level = "Debug" \/ level = "Info" THEN FALSE ELSE TRUE
         [] minLevel = "Critical" ->
              IF level = "Critical" \/ level = "Fatal" THEN TRUE ELSE FALSE
         [] minLevel = "Fatal" -> IF level = "Fatal" THEN TRUE ELSE FALSE
         [] OTHER -> TRUE

(* ------------------------------------------------------------------ *)
(* Directory and file names                                            *)
(* ------------------------------------------------------------------ *)
LogName(i) == <<"log", i>>

\* fileInfo.fileName()+".temp"
TempName(n) == <<"temp", n[2]>>

\* the empty QString
NoName == <<"", 0>>

mainLogFileName == LogName(0)

\* the glob <app>_*.log of entryInfoList
MatchesPattern(n) == n[1] = "log" \/ n[1] = "junk"

\* postfix.toUInt(&ok)
PostfixOk(n) == n[1] = "log"

Postfix(n) == n[2]

EmptyFile == [size |-> 0, lines |-> <<>>]

DirWithout(d, n) == [x \in DOMAIN d \ {n} |-> d[x]]

DirWith(d, n, f) == [x \in DOMAIN d \cup {n} |-> IF x = n THEN f ELSE d[x]]

\* QFile::remove: fails on a missing file or on an injected failure
RemoveOk(d, n, F) == n \in DOMAIN d /\ <<"remove", n>> \notin F

\* QFile::rename: fails when the target exists (Qt refuses to overwrite),
\* when the source is missing, or on an injected failure
RenameOk(d, src, dst, F) ==
  src \in DOMAIN d /\ dst \notin DOMAIN d /\ <<"rename", src>> \notin F

DirRenamed(d, src, dst) == DirWith(DirWithout(d, src), dst, d[src])

\* a rename that fails because the target name is taken
TargetTaken(d, src, dst) == src \in DOMAIN d /\ dst \in DOMAIN d

\* a slip: a file exactly at the limit is not taken as full
SizeAboveLimit(size, max) == size > max

\* the size test that decides that the active file is full
SizeExceeded(size, max) == size >= max

(* ------------------------------------------------------------------ *)
(* Lines                                                               *)
(* ------------------------------------------------------------------ *)
\* a formatted line: its identity and the bytes it takes in the file
\* (formattedMessage.toUtf8()+'\n')
Line(i, b) == [id |-> i, bytes |-> b]

RECURSIVE Ids(_)
Ids(q) == IF q = <<>> THEN <<>> ELSE <<q[1].id>> \o Ids(Tail(q))

IdSet(q) == {q[k].id : k \in 1..Len(q)}

RECURSIVE Bytes(_)
Bytes(q) == IF q = <<>> THEN 0 ELSE q[1].bytes + Bytes(Tail(q))

(* ------------------------------------------------------------------ *)
(* rotateLogFiles: RotationManager                                     *)
(* A pass threads s = [dir, list, errs, removed, origin, clash,        *)
(* failed]: the directory, the QFileInfoList, the number of            *)
(* callErrorHandler calls, the ids of the lines held by files that     *)
(* QFile::remove deleted, for every file now in the directory the name *)
(* it had when the pass began, the number of renames that failed       *)
(* because the target name was taken, and the names (at the start of   *)
(* the pass) of the files whose rename failed.  F is the set of file   *)
(* operations that fail in this pass.                                  *)
(* ------------------------------------------------------------------ *)
RECURSIVE SortByPostfix(_)
SortByPostfix(S) ==
  IF S = {} THEN <<>>
  ELSE LET m == CHOOSE x \in S : \A y \in S : Postfix(x) <= Postfix(y)
       IN <<m>> \o SortByPostfix(S \ {m})

\* list the directory, delete the entries whose suffix is no number
FilterNonNumber(d, F) ==
  LET junk == {n \in DOMAIN d : MatchesPattern(n) /\ ~PostfixOk(n)}
      gone == {n \in junk : RemoveOk(d, n, F)}
  IN [dir |-> [x \in DOMAIN d \ gone |-> d[x]],
      list |-> SortByPostfix({n \in DOMAIN d : MatchesPattern(n) /\ PostfixOk(n)}),
      errs |-> Cardinality(junk \ gone),
      removed |-> UNION {IdSet(d[n].lines) : n \in gone},
      origin |-> [x \in DOMAIN d \ gone |-> x],
      clash |-> 0,
      failed |-> {}]

\* a slip: the first entry of the list, the lowest index, is the one
\* deleted
RemoveFirst(s, F) ==
  LET n == s.list[1]
      ok == RemoveOk(s.dir, n, F)
  IN [dir |-> IF ok THEN DirWithout(s.dir, n) ELSE s.dir,
      list |-> SubSeq(s.list, 2, Len(s.list)),
      errs |-> s.errs + (IF ok THEN 0 ELSE 1),
      removed |-> s.removed \cup (IF ok THEN IdSet(s.dir[n].lines) ELSE {}),
      origin |-> IF ok THEN DirWithout(s.origin, n) ELSE s.origin,
      clash |-> s.clash,
      failed |-> s.failed]

\* QFile::remove(fileList.last()); fileList.removeLast()
RemoveLast(s, F) ==
  LET n == s.list[Len(s.list)]
      ok == RemoveOk(s.dir, n, F)
  IN [dir |-> IF ok THEN DirWithout(s.dir, n) ELSE s.dir,
      list |-> SubSeq(s.list, 1, Len(s.list) - 1),
      errs |-> s.errs + (IF ok THEN 0 ELSE 1),
      removed |-> s.removed \cup (IF ok THEN IdSet(s.dir[n].lines) ELSE {}),
      origin |-> IF ok THEN DirWithout(s.origin, n) ELSE s.origin,
      clash |-> s.clash,
      failed |-> s.failed]

RECURSIVE RemoveRedundant(_, _, _)
RemoveRedundant(s, maxFiles, F) ==
  IF Len(s.list) > maxFiles
  THEN RemoveRedundant(RemoveLast(s, F), maxFiles, F)
  ELSE s

\* the file that will take the highest index is already in the list
ObstacleFound(list) ==
  \E k \in 1..Len(list) : list[k] = LogName(Len(list))

\* every listed file to <name>.temp, in list order
RECURSIVE TempPass(_, _, _)
TempPass(s, i, F) ==
  IF i > Len(s.list) THEN s
  ELSE LET n == s.list[i]
           ok == RenameOk(s.dir, n, TempName(n), F)
       IN TempPass(IF ok
                   THEN [s EXCEPT !.dir = DirRenamed(@, n, TempName(n)),
                                  !.origin = DirRenamed(@, n, TempName(n)),
                                  !.list[i] = TempName(n)]
                   ELSE [s EXCEPT !.errs = @ + 1,
                                  !.clash = @ + (IF TargetTaken(s.dir, n, TempName(n))
                                                 THEN 1 ELSE 0),
                                  !.failed = @ \cup {s.origin[n]}],
                   i + 1, F)

\* the file at list position i (the code's index i-1) becomes <app>_i.log,
\* from the last position down to the first
RECURSIVE LinearPass(_, _, _)
LinearPass(s, i, F) ==
  IF i < 1 THEN s
  ELSE LET n == s.list[i]
           ok == RenameOk(s.dir, n, LogName(i), F)
       IN IF n = LogName(i) THEN LinearPass(s, i - 1, F)
          ELSE LinearPass(IF ok
                          THEN [s EXCEPT !.dir = DirRenamed(@, n, LogName(i)),
                                         !.origin = DirRenamed(@, n, LogName(i)),
                                         !.list[i] = LogName(i)]
                          ELSE [s EXCEPT !.errs = @ + 1,
                                         !.clash = @ + (IF TargetTaken(s.dir, n, LogName(i))
                                                        THEN 1 ELSE 0),
                                         !.failed = @ \cup {s.origin[n]}],
                          i - 1, F)

\* open(WriteOnly|Truncate) and close: creates the file or empties it
logFileTouch(s, n, F) ==
  IF <<"touch", n>> \in F
  THEN [dir |-> s.dir, ok |-> FALSE, errs |-> s.errs + 1,
        origin |-> s.origin]
  ELSE [dir |-> DirWith(s.dir, n, EmptyFile), ok |-> TRUE, errs |-> s.errs,
        origin |-> DirWith(s.origin, n, NoName)]

\* a slip: the name test is inverted, so the fast path is never taken for
\* the main file
KeepOtherFile(d, logFileName, maxSize) ==
  /\ logFileName # NoName
  /\ logFileName # mainLogFileName
  /\ logFileName \in DOMAIN d
  /\ ~SizeExceeded(d[logFileName].size, maxSize)

\* the fast path: the name is set, is the main name, the file exists and
\* is below the maximum size
KeepCurrentFile(d, logFileName, maxSize) ==
  /\ logFileName # NoName
  /\ logFileName = mainLogFileName
  /\ logFileName \in DOMAIN d
  /\ ~SizeExceeded(d[logFileName].size, maxSize)

\* "new file is needed"
NewFileNeeded(d, first, maxSize) ==
  SizeExceeded(d[first].size, maxSize) \/ first # mainLogFileName

\* ensure that after creation the number of log files will not exceed the limit
MakeRoom(s, maxFiles, F) ==
  IF Len(s.list) >= maxFiles THEN RemoveLast(s, F) ELSE s

RenamePasses(s, F) ==
  LET t == IF ObstacleFound(s.list) THEN TempPass(s, 1, F) ELSE s
  IN LinearPass(t, Len(t.list), F)

\* the result: the directory, the value left in logFileName, the return
\* value, the error reports, the removed lines, and whether the pass went
\* through the renaming branch
rotateLogFiles(d, logFileName, maxFiles, maxSize, F) ==
  IF KeepCurrentFile(d, logFileName, maxSize)
  THEN [dir |-> d, name |-> mainLogFileName, ok |-> TRUE, errs |-> 0,
        removed |-> {}, rotated |-> FALSE,
        origin |-> [x \in DOMAIN d |-> x], clash |-> 0, failed |-> {}]
  ELSE
    LET s0 == FilterNonNumber(d, F)
    IN IF s0.list # <<>>
       THEN LET s1 == RemoveRedundant(s0, maxFiles, F)
            IN IF NewFileNeeded(s1.dir, s1.list[1], maxSize)
               THEN LET s2 == RenamePasses(MakeRoom(s1, maxFiles, F), F)
                        t == logFileTouch(s2, mainLogFileName, F)
                    IN [dir |-> t.dir, name |-> mainLogFileName, ok |-> t.ok,
                        errs |-> t.errs, removed |-> s2.removed,
                        rotated |-> TRUE, origin |-> t.origin,
                        clash |-> s2.clash, failed |-> s2.failed]
               ELSE [dir |-> s1.dir, name |-> mainLogFileName, ok |-> TRUE,
                     errs |-> s1.errs, removed |-> s1.removed,
                     rotated |-> FALSE, origin |-> s1.origin,
                     clash |-> s1.clash, failed |-> s1.failed]
       ELSE LET t == logFileTouch(s0, mainLogFileName, F)
            IN [dir |-> t.dir, name |-> mainLogFileName, ok |-> t.ok,
                errs |-> t.errs, removed |-> s0.removed, rotated |-> FALSE,
                origin |-> t.origin, clash |-> s0.clash,
                failed |-> s0.failed]

(* ------------------------------------------------------------------ *)
(* State                                                               *)
(* ------------------------------------------------------------------ *)
VARIABLES
  \* configuration, set before initLogging and before any thread starts
  m_cleanLogCategory, m_cleanToFile, m_minOutLevel, m_minOutFileLevel,
  ndebug,               \* the build defines NDEBUG
  env,                  \* what the environment may do in this behaviour
  \* set by initLogging
  m_logDirSet, handlerInstalled, m_maxLogFiles, m_maxLogFileSize,
  m_logBufferEnabled,
  \* rotation state and the directory
  dir, m_logFileName, firstTime, m_logRotationTime,
  rotated,              \* the last rotateLogFiles call renamed files
  \* the buffer
  m_logBuffer, m_maxBufferMessages,
  m_logBufferFlushTime,
  \* m_logBufferTimer: armed, and a queued QTimer::start not yet delivered
  timerActive, startQueued,
  \* m_logBufferMutex, m_logFileMutex, m_customHandlerMutex: the holder
  mutex,
  \* per thread: position, the record in hand, flushBuffer's locals
  pc, rec, force, doubleBuffer, elapsed, elapsedAvg,
  drainMark,            \* how many lines had been enqueued at th's drain
  crashed,              \* qFatal has aborted the process
  \* history: what was handed in, enqueued, appended, deleted, reported
  nextId, records, enqueued, written, appended, removedLines, console,
  observed, errors,
  samples,              \* the durations of the flushes that stored an average
  m_logMessageFormat,   \* the timestamp format of the log lines
  lastFormatCall,       \* the last setTimestampFormat call and its result
  faults, failedOps     \* injected failures: how many, of which operations

cfgVars == <<m_cleanLogCategory, m_cleanToFile, m_minOutLevel,
             m_minOutFileLevel, ndebug, env, m_logMessageFormat,
             lastFormatCall>>

initVars == <<m_logDirSet, handlerInstalled, m_maxLogFiles, m_maxLogFileSize,
              m_logBufferEnabled>>

fileVars == <<dir, m_logFileName, firstTime, m_logRotationTime, rotated,
              removedLines>>

bufVars == <<m_logBuffer, m_maxBufferMessages, enqueued>>

timerVars == <<timerActive, startQueued>>

localVars == <<rec, force, doubleBuffer, elapsed, elapsedAvg, drainMark>>

inputVars == <<nextId, records, console>>

vars == <<cfgVars, initVars, fileVars, bufVars, timerVars, localVars,
          inputVars, m_logBufferFlushTime, mutex, pc, crashed, written,
          appended, observed, errors, samples, faults, failedOps>>

Main == "main"

Workers == {"w1", "w2"}

Threads == Workers \cup {Main}

None == "none"

NoRec == [type |-> None, category |-> None, line |-> Line(0, 0)]

Locks == {"buffer", "file", "handler", "error"}

(* ------------------------------------------------------------------ *)
(* Injected I/O failures: at most one per file-system pass, at most    *)
(* env.maxFaults per behaviour                                         *)
(* ------------------------------------------------------------------ *)
Oracle(ops) ==
  {{}} \cup (IF faults < env.maxFaults THEN {{o} : o \in ops} ELSE {})

\* a failure is injected only where the pass runs into it
Effective(d, name, maxFiles, maxSize, F) ==
  F = {} \/ rotateLogFiles(d, name, maxFiles, maxSize, F)
              # rotateLogFiles(d, name, maxFiles, maxSize, {})

RotateOps(d) ==
  {<<"remove", n>> : n \in DOMAIN d}
    \cup {<<"rename", n>> : n \in DOMAIN d}
    \cup {<<"rename", TempName(n)>> : n \in DOMAIN d}
    \cup {<<"touch", mainLogFileName>>}

WriteOps(q) == {<<"open", mainLogFileName>>} \cup {<<"write", i>> : i \in IdSet(q)}

(* ------------------------------------------------------------------ *)
(* Telemetry: exponential moving averages, durations in integer ticks  *)
(* ------------------------------------------------------------------ *)
\* elapsedAvg<=+0.0f ? elapsed : elapsedAvg*0.9f + elapsed*0.1f
FlushAverage(avg, secs) ==
  IF avg <= 0 THEN secs ELSE (avg * 9 + secs * 1) \div 10

\* skipped on the first call; alpha 0.2
RotationAverage(avg, secs, first) ==
  IF first THEN avg
  ELSE IF avg <= 0 THEN secs ELSE (avg * 8 + secs * 2) \div 10

(* ------------------------------------------------------------------ *)
(* Pure parts of initLogging, messageHandler and flushBuffer           *)
(* ------------------------------------------------------------------ *)
ClampMaxFiles(maxFiles) ==
  IF maxFiles < MinMaxLogFiles THEN MinMaxLogFiles ELSE maxFiles

ClampMaxFileSize(maxFileSize) ==
  IF maxFileSize < MinMaxLogFileSize THEN MinMaxLogFileSize ELSE maxFileSize

BufferingEnabled(flushTime) == flushTime >= MinFlushTime

\* must not write or transmit potentially sensitive information when prohibited
FileGate(category) ==
  m_cleanLogCategory = "" \/ category # m_cleanLogCategory \/ m_cleanToFile

\* whether the Fatal branch enqueues the line
FatalGate(category) == FileGate(category)

\* whether the handler writes the record to standard output
ConsoleGate(type, category) ==
  IF type = "Fatal" THEN TRUE
  ELSE IF m_cleanLogCategory = ""
       THEN levelGreaterOrEqual(type, m_minOutLevel)
       ELSE category = m_cleanLogCategory

\* a slip: the file level test uses the console level
OutLevelPasses(type) == levelGreaterOrEqual(type, m_minOutLevel)

\* if(levelGreaterOrEqual(type,m_minOutFileLevel))
FileLevelPasses(type) == levelGreaterOrEqual(type, m_minOutFileLevel)

\* where messageHandler goes after formatting the record
HandlerNext(type, category) ==
  IF ndebug /\ type = "Debug" THEN "idle"
  ELSE IF type = "Fatal"
       THEN IF FatalGate(category) THEN "enq_lock" ELSE "fatal"
       ELSE IF FileGate(category)
            THEN IF FileLevelPasses(type)
                 THEN "enq_lock" ELSE "send_lock"
            ELSE "idle"

\* a slip: the line is put at the head of the queue
EnqueueAtHead(q, l) == <<l>> \o q

\* m_logBuffer.enqueue(formattedMessage)
Enqueue(q, l) == Append(q, l)

\* after the enqueue: the producer flushes inline or goes on
AfterEnqueue(type) ==
  IF type = "Fatal" \/ type = "Critical" THEN "fb_entry"
  ELSE IF ~m_logBufferEnabled THEN "fb_entry" ELSE "send_lock"

ForceFlag(type) == type = "Fatal" \/ type = "Critical"

\* QQueue<QString> doubleBuffer=m_logBuffer
DoubleBuffer(q) == q

\* a slip: the buffer is copied and not cleared
NotCleared(q) == q

\* m_logBuffer.clear()
Cleared(q) == <<>>

\* if(m_logBuffer.isEmpty()) { unlock; return; }
NothingToFlush(q) == q = <<>>

\* a slip: the drained batch is not put back
RequeuedWithoutBatch(db, q) == q

\* doubleBuffer.append(m_logBuffer); m_logBuffer=doubleBuffer
Requeued(db, q) == db \o q

\* the lines of q whose write does not fail, in order
RECURSIVE WrittenLines(_, _)
WrittenLines(q, F) ==
  IF q = <<>> THEN <<>>
  ELSE (IF <<"write", q[1].id>> \in F THEN <<>> ELSE <<q[1]>>)
         \o WrittenLines(Tail(q), F)

\* logFile.write(...) for every drained line, on a file opened for append
Appended(f, q) == [size |-> f.size + Bytes(q), lines |-> f.lines \o q]

\* where flushBuffer returns to
Return(th) == IF th = Main THEN "idle" ELSE "send_lock"

Goto(th, l) == pc' = [pc EXCEPT ![th] = l]

\* a slip: the lock is taken whoever holds it
AcquireHeld(th, l) == mutex' = [mutex EXCEPT ![l] = th]

Acquire(th, l) == mutex[l] = None /\ mutex' = [mutex EXCEPT ![l] = th]

Release(th, l) == mutex' = [mutex EXCEPT ![l] = None]

(* ------------------------------------------------------------------ *)
(* initLogging, called by the main thread before any thread logs       *)
(* ------------------------------------------------------------------ *)
\* a = [flushTime, maxFiles, maxFileSize].  The first rotation pass runs
\* before the limits are taken from the arguments.
initLogging(a) ==
  /\ pc[Main] = "start"
  /\ ~crashed
  /\ \E F \in Oracle({<<"probe", mainLogFileName>>} \cup RotateOps(dir)) :
     \E d \in env.durations :
       LET writable == <<"probe", mainLogFileName>> \notin F
           r == rotateLogFiles(dir, m_logFileName, m_maxLogFiles,
                               m_maxLogFileSize, F)
           ok == writable /\ r.ok
           enabled == BufferingEnabled(a.flushTime)
       IN /\ ~writable \/ Effective(dir, m_logFileName, m_maxLogFiles,
                                    m_maxLogFileSize, F)
          /\ faults' = faults + Cardinality(F)
          /\ failedOps' = failedOps \cup {o[1] : o \in F}
          /\ rotated' = IF writable THEN r.rotated ELSE rotated
          /\ errors' = errors + (IF writable THEN r.errs ELSE 1)
          /\ m_logDirSet' = (m_logDirSet \/ writable)
          /\ dir' = IF writable THEN r.dir ELSE dir
          /\ m_logFileName' = IF writable THEN r.name ELSE m_logFileName
          /\ removedLines' = removedLines \cup (IF writable THEN r.removed ELSE {})
          /\ m_logRotationTime' =
               IF ok THEN RotationAverage(m_logRotationTime, d, firstTime)
               ELSE m_logRotationTime
          /\ firstTime' = IF ok THEN FALSE ELSE firstTime
          /\ m_maxLogFiles' =
               IF ok THEN ClampMaxFiles(a.maxFiles) ELSE m_maxLogFiles
          /\ m_maxLogFileSize' =
               IF ok THEN ClampMaxFileSize(a.maxFileSize) ELSE m_maxLogFileSize
          /\ m_logBufferEnabled' = IF ok THEN enabled ELSE m_logBufferEnabled
          /\ handlerInstalled' = ok
          /\ timerActive' = (ok /\ enabled)
          /\ Goto(Main, IF ok THEN "idle" ELSE "start")
  /\ UNCHANGED <<cfgVars, samples, bufVars, startQueued, localVars, inputVars,
                 m_logBufferFlushTime, mutex, crashed, written, appended,
                 observed>>

(* ------------------------------------------------------------------ *)
(* messageHandler, run by a producer thread                            *)
(* ------------------------------------------------------------------ *)
\* from the call to the first lock: the record is formatted, written to
\* standard output when the console filter lets it, and gated
messageHandler(w, type, category, b) ==
  /\ pc[w] = "idle"
  /\ handlerInstalled
  /\ ~crashed
  /\ nextId <= env.maxLines
  /\ type \in env.levels[w]
  /\ LET next == HandlerNext(type, category)
         r == [type |-> type, category |-> category, line |-> Line(nextId, b)]
     IN /\ Goto(w, next)
        /\ rec' = [rec EXCEPT ![w] = IF next = "idle" THEN NoRec ELSE r]
        /\ records' = Append(records, [type |-> type, category |-> category])
        /\ console' =
             IF ~(ndebug /\ type = "Debug") /\ type # "Fatal"
                /\ ConsoleGate(type, category)
             THEN console \cup {nextId} ELSE console
        /\ nextId' = nextId + 1
  /\ UNCHANGED <<cfgVars, samples, initVars, fileVars, bufVars, timerVars, force,
                 doubleBuffer, elapsed, elapsedAvg, drainMark, m_logBufferFlushTime, mutex,
                 crashed, written, appended, observed, errors, faults,
                 failedOps>>

\* m_logBufferMutex.lock()
EnqueueLock(w) ==
  /\ pc[w] = "enq_lock"
  /\ ~crashed
  /\ Acquire(w, "buffer")
  /\ Goto(w, "enq")
  /\ UNCHANGED <<cfgVars, samples, initVars, fileVars, bufVars, timerVars, localVars,
                 inputVars, m_logBufferFlushTime, crashed, written, appended,
                 observed, errors, faults,
                 failedOps>>

\* m_logBuffer.enqueue(formattedMessage); m_logBufferMutex.unlock()
EnqueueLine(w) ==
  /\ pc[w] = "enq"
  /\ ~crashed
  /\ m_logBuffer' = Enqueue(m_logBuffer, rec[w].line)
  /\ enqueued' = Append(enqueued, rec[w].line.id)
  /\ Release(w, "buffer")
  /\ force' = [force EXCEPT ![w] = ForceFlag(rec[w].type)]
  /\ Goto(w, AfterEnqueue(rec[w].type))
  /\ UNCHANGED <<cfgVars, samples, initVars, fileVars, m_maxBufferMessages, timerVars,
                 rec, doubleBuffer, elapsed, elapsedAvg, drainMark, inputVars,
                 m_logBufferFlushTime, crashed, written, appended, observed,
                 errors, faults,
                 failedOps>>

\* m_customHandlerMutex.lock()
SendLock(w) ==
  /\ pc[w] = "send_lock"
  /\ ~crashed
  /\ Acquire(w, "handler")
  /\ Goto(w, "send")
  /\ UNCHANGED <<cfgVars, samples, initVars, fileVars, bufVars, timerVars, localVars,
                 inputVars, m_logBufferFlushTime, crashed, written, appended,
                 observed, errors, faults,
                 failedOps>>

\* instance().sendLog(...); m_customHandlerMutex.unlock(); a Fatal record
\* goes on to the qFatal re-emit, any other record returns
SendLog(w) ==
  /\ pc[w] = "send"
  /\ ~crashed
  /\ observed' = observed \cup {rec[w].line.id}
  /\ Release(w, "handler")
  /\ Goto(w, IF rec[w].type = "Fatal" THEN "fatal" ELSE "idle")
  /\ rec' = [rec EXCEPT ![w] = IF rec[w].type = "Fatal" THEN @ ELSE NoRec]
  /\ UNCHANGED <<cfgVars, samples, initVars, fileVars, bufVars, timerVars, force,
                 doubleBuffer, elapsed, elapsedAvg, drainMark, inputVars, m_logBufferFlushTime,
                 crashed, written, appended, errors, faults,
                 failedOps>>

\* qFatal() from inside the handler: the message goes to the default
\* handler, which aborts the process
FatalAbort(w) ==
  /\ pc[w] = "fatal"
  /\ ~crashed
  /\ crashed' = TRUE
  /\ console' = console \cup {rec[w].line.id}
  /\ Goto(w, "aborted")
  /\ UNCHANGED <<cfgVars, samples, initVars, fileVars, bufVars, timerVars, localVars,
                 nextId, records, m_logBufferFlushTime, mutex, written,
                 appended, observed, errors, faults,
                 failedOps>>

(* ------------------------------------------------------------------ *)
(* flushBuffer(force), run by the thread th: a producer (inline) or    *)
(* the main thread (timer)                                             *)
(* ------------------------------------------------------------------ *)
\* the queued QTimer::start is posted, then m_logBufferMutex.lock()
FlushEntry(th) ==
  /\ pc[th] = "fb_entry"
  /\ ~crashed
  /\ startQueued' = (startQueued \/ m_logBufferEnabled)
  /\ Acquire(th, "buffer")
  /\ Goto(th, "fb_drain")
  /\ UNCHANGED <<cfgVars, samples, initVars, fileVars, bufVars, timerActive, localVars,
                 inputVars, m_logBufferFlushTime, crashed, written, appended,
                 observed, errors, faults,
                 failedOps>>

\* a slip: the buffer lock is kept while the drained batch is written
FlushDrainHolding(th) ==
  /\ pc[th] = "fb_drain"
  /\ ~crashed
  /\ LET empty == NothingToFlush(m_logBuffer)
     IN /\ m_maxBufferMessages' =
             IF ~empty /\ m_logBufferEnabled
                /\ Len(m_logBuffer) > m_maxBufferMessages
             THEN Len(m_logBuffer) ELSE m_maxBufferMessages
        /\ doubleBuffer' =
             [doubleBuffer EXCEPT ![th] =
                IF empty THEN @ ELSE DoubleBuffer(m_logBuffer)]
        /\ drainMark' =
             [drainMark EXCEPT ![th] = IF empty THEN @ ELSE Len(enqueued)]
        /\ m_logBuffer' = IF empty THEN m_logBuffer ELSE Cleared(m_logBuffer)
        /\ Goto(th, IF empty THEN Return(th) ELSE "fb_file_lock")
  /\ mutex' = IF NothingToFlush(m_logBuffer)
              THEN [mutex EXCEPT !["buffer"] = None] ELSE mutex
  /\ UNCHANGED <<cfgVars, samples, initVars, fileVars, enqueued, timerVars, rec, force,
                 elapsed, elapsedAvg, inputVars, m_logBufferFlushTime, crashed,
                 written, appended, observed, errors, faults,
                 failedOps>>

\* under the buffer lock: return on an empty buffer, else take the whole
\* buffer into doubleBuffer and clear it; unlock
FlushDrain(th) ==
  /\ pc[th] = "fb_drain"
  /\ ~crashed
  /\ LET empty == NothingToFlush(m_logBuffer)
     IN /\ m_maxBufferMessages' =
             IF ~empty /\ m_logBufferEnabled
                /\ Len(m_logBuffer) > m_maxBufferMessages
             THEN Len(m_logBuffer) ELSE m_maxBufferMessages
        /\ doubleBuffer' =
             [doubleBuffer EXCEPT ![th] =
                IF empty THEN @ ELSE DoubleBuffer(m_logBuffer)]
        /\ drainMark' =
             [drainMark EXCEPT ![th] = IF empty THEN @ ELSE Len(enqueued)]
        /\ m_logBuffer' = IF empty THEN m_logBuffer ELSE Cleared(m_logBuffer)
        /\ Goto(th, IF empty THEN Return(th) ELSE "fb_file_lock")
  /\ Release(th, "buffer")
  /\ UNCHANGED <<cfgVars, samples, initVars, fileVars, enqueued, timerVars, rec, force,
                 elapsed, elapsedAvg, inputVars, m_logBufferFlushTime, crashed,
                 written, appended, observed, errors, faults,
                 failedOps>>

\* a slip: flushBuffer goes on to rotateLogFiles without the file lock
FlushFileUnlocked(th) ==
  /\ pc[th] = "fb_file_lock"
  /\ ~crashed
  /\ Goto(th, "fb_rotate")
  /\ UNCHANGED <<cfgVars, samples, initVars, fileVars, bufVars, timerVars, localVars,
                 inputVars, m_logBufferFlushTime, mutex, crashed, written,
                 appended, observed, errors, faults, failedOps>>

\* m_logFileMutex.lock()
FlushFileLock(th) ==
  /\ pc[th] = "fb_file_lock"
  /\ ~crashed
  /\ Acquire(th, "file")
  /\ Goto(th, "fb_rotate")
  /\ UNCHANGED <<cfgVars, samples, initVars, fileVars, bufVars, timerVars, localVars,
                 inputVars, m_logBufferFlushTime, crashed, written, appended,
                 observed, errors, faults,
                 failedOps>>

\* rotateLogFiles(m_logFileName) under the file lock; on failure the file
\* lock is released and the drained lines go back
FlushRotate(th) ==
  /\ pc[th] = "fb_rotate"
  /\ ~crashed
  /\ \E F \in Oracle(RotateOps(dir)) :
     \E d \in env.durations :
       LET r == rotateLogFiles(dir, m_logFileName, m_maxLogFiles,
                               m_maxLogFileSize, F)
       IN /\ Effective(dir, m_logFileName, m_maxLogFiles,
                       m_maxLogFileSize, F)
          /\ faults' = faults + Cardinality(F)
          /\ failedOps' = failedOps \cup {o[1] : o \in F}
          /\ rotated' = r.rotated
          /\ errors' = errors + r.errs
          /\ dir' = r.dir
          /\ m_logFileName' = r.name
          /\ removedLines' = removedLines \cup r.removed
          /\ m_logRotationTime' =
               IF r.ok THEN RotationAverage(m_logRotationTime, d, firstTime)
               ELSE m_logRotationTime
          /\ firstTime' = IF r.ok THEN FALSE ELSE firstTime
          /\ mutex' = IF r.ok THEN mutex ELSE [mutex EXCEPT !["file"] = None]
          /\ Goto(th, IF r.ok THEN "fb_write" ELSE "fb_requeue_lock")
  /\ UNCHANGED <<cfgVars, samples, initVars, bufVars, timerVars, localVars, inputVars,
                 m_logBufferFlushTime, crashed, written, appended, observed>>

\* open for append, write every drained line, flush when forced, close,
\* release the file lock.  A failed open reports the error and sends the
\* drained lines back; the result of write() is not looked at.
FlushWrite(th) ==
  /\ pc[th] = "fb_write"
  /\ ~crashed
  /\ \E F \in Oracle(WriteOps(doubleBuffer[th])) :
       LET opened == <<"open", mainLogFileName>> \notin F
           name == m_logFileName
           old == IF name \in DOMAIN dir THEN dir[name] ELSE EmptyFile
           lines == WrittenLines(doubleBuffer[th], F)
       IN /\ faults' = faults + Cardinality(F)
          /\ failedOps' = failedOps \cup {o[1] : o \in F}
          /\ errors' = errors + (IF opened THEN 0 ELSE 1)
          /\ dir' = IF opened THEN DirWith(dir, name, Appended(old, lines))
                    ELSE dir
          /\ written' = IF opened THEN written \o Ids(lines) ELSE written
          /\ appended' = [appended EXCEPT ![th] = IF opened THEN lines ELSE @]
          /\ doubleBuffer' =
               [doubleBuffer EXCEPT ![th] = IF opened THEN <<>> ELSE @]
          /\ Goto(th, IF opened THEN "fb_ema_load" ELSE "fb_requeue_lock")
          /\ \E d \in env.durations :
               elapsed' = [elapsed EXCEPT ![th] = IF opened THEN d ELSE @]
  /\ Release(th, "file")
  /\ UNCHANGED <<cfgVars, samples, initVars, m_logFileName, firstTime,
                 m_logRotationTime, rotated, removedLines, bufVars, timerVars,
                 rec, force, elapsedAvg, drainMark, inputVars,
                 m_logBufferFlushTime, crashed, observed>>

\* m_logBufferMutex.lock() on the failure path
FlushRequeueLock(th) ==
  /\ pc[th] = "fb_requeue_lock"
  /\ ~crashed
  /\ Acquire(th, "buffer")
  /\ Goto(th, "fb_requeue")
  /\ UNCHANGED <<cfgVars, samples, initVars, fileVars, bufVars, timerVars, localVars,
                 inputVars, m_logBufferFlushTime, crashed, written, appended,
                 observed, errors, faults,
                 failedOps>>

\* doubleBuffer.append(m_logBuffer); m_logBuffer=doubleBuffer; unlock; return
FlushRequeue(th) ==
  /\ pc[th] = "fb_requeue"
  /\ ~crashed
  /\ m_logBuffer' = Requeued(doubleBuffer[th], m_logBuffer)
  /\ doubleBuffer' = [doubleBuffer EXCEPT ![th] = <<>>]
  /\ drainMark' = [drainMark EXCEPT ![th] = 0]
  /\ Release(th, "buffer")
  /\ Goto(th, Return(th))
  /\ UNCHANGED <<cfgVars, samples, initVars, fileVars, m_maxBufferMessages, enqueued,
                 timerVars, rec, force, elapsed, elapsedAvg, inputVars,
                 m_logBufferFlushTime, crashed, written, appended, observed,
                 errors, faults,
                 failedOps>>

\* float elapsedAvg=m_logBufferFlushTime, blended with the elapsed time
FlushAverageLoad(th) ==
  /\ pc[th] = "fb_ema_load"
  /\ ~crashed
  /\ elapsedAvg' = [elapsedAvg EXCEPT ![th] =
                     FlushAverage(m_logBufferFlushTime, elapsed[th])]
  /\ Goto(th, "fb_ema_store")
  /\ UNCHANGED <<cfgVars, samples, initVars, fileVars, bufVars, timerVars, rec, force,
                 doubleBuffer, elapsed, drainMark, inputVars, m_logBufferFlushTime,
                 mutex,
                 crashed, written, appended, observed, errors, faults,
                 failedOps>>

\* m_logBufferFlushTime=elapsedAvg; return
FlushAverageStore(th) ==
  /\ pc[th] = "fb_ema_store"
  /\ ~crashed
  /\ m_logBufferFlushTime' = elapsedAvg[th]
  /\ samples' = Append(samples, elapsed[th])
  /\ elapsed' = [elapsed EXCEPT ![th] = 0]
  /\ elapsedAvg' = [elapsedAvg EXCEPT ![th] = 0]
  /\ appended' = [appended EXCEPT ![th] = <<>>]
  /\ drainMark' = [drainMark EXCEPT ![th] = 0]
  /\ Goto(th, Return(th))
  /\ UNCHANGED <<cfgVars, initVars, fileVars, bufVars, timerVars, rec, force,
                 doubleBuffer, inputVars, mutex, crashed, written, observed,
                 errors, faults,
                 failedOps>>

(* ------------------------------------------------------------------ *)
(* The flush timer, in the main thread's event loop                    *)
(* ------------------------------------------------------------------ *)
\* QTimer::timeout of the single-shot timer: flushBuffer(false)
TimerFire ==
  /\ pc[Main] = "idle"
  /\ ~crashed
  /\ timerActive
  /\ timerActive' = FALSE
  /\ force' = [force EXCEPT ![Main] = FALSE]
  /\ Goto(Main, "fb_entry")
  /\ UNCHANGED <<cfgVars, samples, initVars, fileVars, bufVars, startQueued, rec,
                 doubleBuffer, elapsed, elapsedAvg, drainMark, inputVars, m_logBufferFlushTime,
                 mutex, crashed, written, appended, observed, errors, faults,
                 failedOps>>

\* the event loop delivers the queued QTimer::start
TimerStart ==
  /\ pc[Main] = "idle"
  /\ ~crashed
  /\ startQueued
  /\ startQueued' = FALSE
  /\ timerActive' = TRUE
  /\ UNCHANGED <<cfgVars, samples, initVars, fileVars, bufVars, localVars, inputVars,
                 m_logBufferFlushTime, mutex, pc, crashed, written, appended,
                 observed, errors, faults,
                 failedOps>>

(* ------------------------------------------------------------------ *)
(* The timestamp format. A format is a sequence of tokens: "H" the hour *)
(* without padding, "HH" and "mm" the hour and the minute on two        *)
(* digits, anything else a literal character. A text is a sequence of   *)
(* characters.                                                          *)
(* ------------------------------------------------------------------ *)
MaxFormatLen == 2

FormatTokens == {"H", "HH", "mm", "-"}

Formats == UNION {[1..n -> FormatTokens] : n \in 0..MaxFormatLen}

\* the hours and minutes QDateTime::currentDateTime() may return
Clocks == [hour : {1, 12}, minute : {5}]

DefaultTimestampFormat == <<"HH", "-", "mm">>

NoFormatCall == [format |-> <<>>, now |-> [hour |-> 0, minute |-> 0],
                 result |-> "none"]

DigitChars == <<"0", "1", "2", "3", "4", "5", "6", "7", "8", "9">>

IsDigit(c) == \E n \in 1..10 : DigitChars[n] = c

DigitOf(c) == (CHOOSE n \in 1..10 : DigitChars[n] = c) - 1

Padded(n) == <<DigitChars[(n \div 10) + 1], DigitChars[(n % 10) + 1]>>

Unpadded(n) == IF n < 10 THEN <<DigitChars[n + 1]>> ELSE Padded(n)

\* QDateTime::toString(format)
RECURSIVE toString(_, _)
toString(now, format) ==
  IF format = <<>> THEN <<>>
  ELSE LET tok == Head(format)
           field == CASE tok = "H" -> Unpadded(now.hour)
                      [] tok = "HH" -> Padded(now.hour)
                      [] tok = "mm" -> Padded(now.minute)
                      [] OTHER -> <<tok>>
       IN field \o toString(now, Tail(format))

\* how many characters a token takes from the front of a text; 0: no match
Taken(tok, text) ==
  LET digits == IF Len(text) >= 2 /\ IsDigit(text[1]) /\ IsDigit(text[2])
                THEN 2
                ELSE IF Len(text) >= 1 /\ IsDigit(text[1]) THEN 1 ELSE 0
  IN CASE tok = "H" -> digits
       [] tok \in {"HH", "mm"} -> IF digits = 2 THEN 2 ELSE 0
       [] OTHER -> IF Len(text) >= 1 /\ text[1] = tok THEN 1 ELSE 0

NumberOf(text) ==
  IF Len(text) = 1 THEN DigitOf(text[1])
  ELSE DigitOf(text[1]) * 10 + DigitOf(text[2])

\* QDateTime::fromString(text, format): the fields read so far in t
RECURSIVE fromStringFrom(_, _, _)
fromStringFrom(text, format, t) ==
  IF format = <<>> THEN [t EXCEPT !.valid = (text = <<>>)]
  ELSE LET tok == Head(format)
           n == Taken(tok, text)
           rest == SubSeq(text, n + 1, Len(text))
           v == NumberOf(SubSeq(text, 1, n))
       IN IF n = 0 THEN [t EXCEPT !.valid = FALSE]
          ELSE IF tok \in {"H", "HH"}
          THEN IF v > 23 \/ (t.hour # -1 /\ t.hour # v)
               THEN [t EXCEPT !.valid = FALSE]
               ELSE fromStringFrom(rest, Tail(format), [t EXCEPT !.hour = v])
          ELSE IF tok = "mm"
          THEN IF v > 59 \/ (t.minute # -1 /\ t.minute # v)
               THEN [t EXCEPT !.valid = FALSE]
               ELSE fromStringFrom(rest, Tail(format),
                                   [t EXCEPT !.minute = v])
          ELSE fromStringFrom(rest, Tail(format), t)

fromString(text, format) ==
  fromStringFrom(text, format, [hour |-> -1, minute |-> -1, valid |-> TRUE])

\* "'['"+format+"']'"
Bracketed(format) == <<"[">> \o format \o <<"]">>

\* a call that passes both tests whatever the round trip says
FormatNotEmpty(now, format) == format # <<>>

\* !format.isEmpty() and the format-then-parse round trip is valid
FormatAccepted(now, format) ==
  /\ format # <<>>
  /\ fromString(toString(now, format), format).valid

\* bool QCustomLog::setTimestampFormat(const QString& format)
setTimestampFormat(format) ==
  /\ pc[Main] = "start"
  /\ \E now \in Clocks :
       LET ok == FormatAccepted(now, format)
       IN /\ m_logMessageFormat' =
               IF ok THEN Bracketed(format) ELSE m_logMessageFormat
          /\ lastFormatCall' =
               [format |-> format, now |-> now,
                result |-> IF ok THEN "true" ELSE "false"]
  /\ UNCHANGED <<m_cleanLogCategory, m_cleanToFile, m_minOutLevel,
                 m_minOutFileLevel, ndebug, env, initVars, fileVars, bufVars,
                 timerVars, localVars, inputVars, m_logBufferFlushTime,
                 mutex, pc, crashed, written, appended, observed, errors,
                 samples, faults, failedOps>>

(* ------------------------------------------------------------------ *)
(* Initial states: the statics of the class, a directory left by       *)
(* earlier runs, a configuration                                       *)
(* ------------------------------------------------------------------ *)
InitWith(dirs, cfgs, e) ==
  /\ env = e
  /\ dir \in dirs
  /\ \E c \in cfgs :
       /\ m_cleanLogCategory = c.clean
       /\ m_cleanToFile = c.toFile
       /\ m_minOutLevel = c.minOut
       /\ m_minOutFileLevel = c.minFile
       /\ ndebug = c.ndebug
  /\ m_logDirSet = FALSE
  /\ handlerInstalled = FALSE
  /\ m_maxLogFiles = DefaultMaxLogFiles
  /\ m_maxLogFileSize = DefaultMaxLogFileSize
  /\ m_logBufferEnabled = FALSE
  /\ m_logFileName = NoName
  /\ firstTime = TRUE
  /\ m_logRotationTime = 0
  /\ m_logBuffer = <<>>
  /\ m_maxBufferMessages = 0
  /\ m_logBufferFlushTime = 0
  /\ timerActive = FALSE
  /\ startQueued = FALSE
  /\ mutex = [l \in Locks |-> None]
  /\ pc = [th \in Threads |-> IF th = Main THEN "start" ELSE "idle"]
  /\ rec = [th \in Threads |-> NoRec]
  /\ force = [th \in Threads |-> FALSE]
  /\ doubleBuffer = [th \in Threads |-> <<>>]
  /\ elapsed = [th \in Threads |-> 0]
  /\ elapsedAvg = [th \in Threads |-> 0]
  /\ samples = <<>>
  /\ m_logMessageFormat = Bracketed(DefaultTimestampFormat)
  /\ lastFormatCall = NoFormatCall
  /\ drainMark = [th \in Threads |-> 0]
  /\ rotated = FALSE
  /\ failedOps = {}
  /\ crashed = FALSE
  /\ nextId = 1
  /\ records = <<>>
  /\ enqueued = <<>>
  /\ written = <<>>
  /\ appended = [th \in Threads |-> <<>>]
  /\ removedLines = {}
  /\ console = {}
  /\ observed = {}
  /\ errors = 0
  /\ faults = 0

(* ------------------------------------------------------------------ *)
(* Environments                                                        *)
(* ------------------------------------------------------------------ *)
File(size) == [size |-> size, lines |-> <<>>]

\* a directory left by earlier runs: the files with the suffixes in S,
\* the active one of size size0, the rotated ones full
DirOf(S, size0) ==
  [n \in {LogName(i) : i \in S} |->
     IF n = mainLogFileName THEN File(size0) ELSE File(MinMaxLogFileSize)]

OneLineShort == MinMaxLogFileSize - LineBytes

\* none; an active file one line short of the minimum size limit; three
\* files of a run that had a higher file limit
SystemDirs ==
  {DirOf({}, 0), DirOf({0}, OneLineShort), DirOf({0, 1, 2}, OneLineShort)}

\* every set of numeric suffixes up to MaxIndex, a full active file, and
\* some directories holding a file whose suffix is no number
RotateDirs ==
  {DirOf(S, OneLineShort) : S \in SUBSET (0..MaxIndex)}
    \cup {DirOf({0}, MinMaxLogFileSize)}
    \cup {DirWith(DirOf(S, OneLineShort), <<"junk", 0>>, File(LineBytes)) :
            S \in {{}, {0}, {1, 2}}}

DefaultCfg ==
  [clean |-> "", toFile |-> TRUE, minOut |-> "Debug", minFile |-> "Debug",
   ndebug |-> FALSE]

AllCfgs ==
  [clean : {"", "ci"}, toFile : BOOLEAN, minOut : Levels, minFile : Levels,
   ndebug : BOOLEAN]

BufferedArgs ==
  [flushTime |-> 10 * MinFlushTime, maxFiles |-> MinMaxLogFiles,
   maxFileSize |-> MinMaxLogFileSize]

UnbufferedArgs ==
  [flushTime |-> MinFlushTime \div 2, maxFiles |-> MinMaxLogFiles,
   maxFileSize |-> MinMaxLogFileSize]

\* two producers, one of which logs below Critical only, and the timer
SystemEnv ==
  [levels |-> [w \in Workers |-> IF w = "w1"
                                    THEN {"Info", "Critical", "Fatal"}
                                    ELSE {"Info"}],
   categories |-> {"app"}, lineBytes |-> {LineBytes}, durations |-> {Tick},
   maxLines |-> MaxLines, maxFaults |-> 0, initArgs |-> {BufferedArgs}]

\* one producer and the timer, with I/O failures
FaultsEnv ==
  [levels |-> [w \in Workers |-> IF w = "w1"
                                    THEN {"Info", "Critical", "Fatal"}
                                    ELSE {}],
   categories |-> {"app"}, lineBytes |-> {LineBytes}, durations |-> {Tick},
   maxLines |-> MaxLines, maxFaults |-> MaxFaults,
   initArgs |-> {BufferedArgs}]

\* two producers below Critical: the timer is the only flusher
SingleEnv ==
  [levels |-> [w \in Workers |-> {"Info", "Warning"}],
   categories |-> {"app"}, lineBytes |-> {LineBytes}, durations |-> {Tick},
   maxLines |-> MaxLines, maxFaults |-> 0, initArgs |-> {BufferedArgs}]

\* one producer, every level and both categories, buffered and unbuffered
PolicyEnv ==
  [levels |-> [w \in Workers |-> IF w = "w1" THEN Levels ELSE {}],
   categories |-> {"ci", "app"}, lineBytes |-> {LineBytes},
   durations |-> {Tick}, maxLines |-> PolicyLines, maxFaults |-> 0,
   initArgs |-> {BufferedArgs, UnbufferedArgs}]

\* two producers below Critical, buffered or unbuffered
SyncEnv ==
  [levels |-> [w \in Workers |-> {"Info"}],
   categories |-> {"app"}, lineBytes |-> {LineBytes}, durations |-> {Tick},
   maxLines |-> MaxLines, maxFaults |-> 0,
   initArgs |-> {BufferedArgs, UnbufferedArgs}]

\* one producer logging at every level, with buffering
LevelsEnv ==
  [levels |-> [w \in Workers |-> IF w = "w1" THEN Levels ELSE {}],
   categories |-> {"app"}, lineBytes |-> {LineBytes}, durations |-> {Tick},
   maxLines |-> PolicyLines, maxFaults |-> 0, initArgs |-> {BufferedArgs}]

\* every pair of minimum levels, no clean category, a debug build
LevelCfgs ==
  {c \in AllCfgs : c.clean = "" /\ c.toFile /\ ~c.ndebug}

\* one producer of Critical records and the timer: two flushers, and
\* flushes that take one or two ticks
AverageEnv ==
  [levels |-> [w \in Workers |-> IF w = "w1" THEN {"Critical"} ELSE {}],
   categories |-> {"app"}, lineBytes |-> {LineBytes},
   durations |-> {Tick, 2 * Tick},
   maxLines |-> MaxLines, maxFaults |-> 0, initArgs |-> {BufferedArgs}]

\* one producer, unbuffered: every record is flushed inline; a line is
\* short, or long enough to fill a file of the minimum size limit
RotateEnv ==
  [levels |-> [w \in Workers |-> IF w = "w1" THEN {"Info"} ELSE {}],
   categories |-> {"app"},
   lineBytes |-> {LineBytes, MinMaxLogFileSize}, durations |-> {Tick},
   maxLines |-> MaxLines, maxFaults |-> 0,
   initArgs |-> {[UnbufferedArgs EXCEPT !.maxFiles = m] :
                   m \in {MinMaxLogFiles, MinMaxLogFiles + 1}}]

\* a producer of Info and Critical records, a producer of Info records
\* and the timer, with buffering; no Fatal record ends the process
ProgressEnv ==
  [levels |-> [w \in Workers |-> IF w = "w1"
                                    THEN {"Info", "Critical"}
                                    ELSE {"Info"}],
   categories |-> {"app"}, lineBytes |-> {LineBytes}, durations |-> {Tick},
   maxLines |-> MaxLines, maxFaults |-> 0, initArgs |-> {BufferedArgs}]

\* one producer of Info and Critical records and the timer, with
\* buffering and with I/O failures that stop after MaxFaults
LiveEnv ==
  [levels |-> [w \in Workers |-> IF w = "w1"
                                    THEN {"Info", "Critical"}
                                    ELSE {}],
   categories |-> {"app"}, lineBytes |-> {LineBytes}, durations |-> {Tick},
   maxLines |-> MaxLines, maxFaults |-> MaxFaults,
   initArgs |-> {BufferedArgs}]

\* a producer of forced flushes, a producer of buffered lines and the
\* timer; the failing I/O is chosen by the reporting steps
LocksEnv ==
  [levels |-> [w \in Workers |-> IF w = "w1" THEN {"Critical"}
                                    ELSE {"Info"}],
   categories |-> {"app"}, lineBytes |-> {LineBytes}, durations |-> {Tick},
   maxLines |-> PolicyLines, maxFaults |-> 0, initArgs |-> {BufferedArgs}]

\* the same producer, with one failing file operation
RotateFaultsEnv == [RotateEnv EXCEPT !.maxFaults = MaxFaults]

(* ------------------------------------------------------------------ *)
(* Specifications                                                      *)
(* ------------------------------------------------------------------ *)
Init == InitWith(SystemDirs, {DefaultCfg}, SystemEnv)

InitFaults == InitWith(SystemDirs, {DefaultCfg}, FaultsEnv)

InitSingle == InitWith(SystemDirs, {DefaultCfg}, SingleEnv)

InitPolicy == InitWith({DirOf({}, 0)}, AllCfgs, PolicyEnv)

InitRotate == InitWith(RotateDirs, {DefaultCfg}, RotateEnv)

InitLevels == InitWith({DirOf({}, 0)}, LevelCfgs, LevelsEnv)

InitSync == InitWith({DirOf({}, 0)}, {DefaultCfg}, SyncEnv)

\* the producers' steps that every environment takes
Produce ==
  \/ \E w \in Workers, t \in Levels, c \in env.categories,
        b \in env.lineBytes : messageHandler(w, t, c, b)
  \/ \E w \in Workers : EnqueueLock(w)
  \/ \E w \in Workers : EnqueueLine(w)
  \/ \E w \in Workers : SendLock(w)
  \/ \E w \in Workers : SendLog(w)

\* a flush that meets no failure
Flush ==
  \/ \E th \in Threads : FlushEntry(th)
  \/ \E th \in Threads : FlushDrain(th)
  \/ \E th \in Threads : FlushFileLock(th)
  \/ \E th \in Threads : FlushRotate(th)
  \/ \E th \in Threads : FlushWrite(th)
  \/ \E th \in Threads : FlushAverageLoad(th)
  \/ \E th \in Threads : FlushAverageStore(th)

\* the failure path of a flush
FlushFailure ==
  \/ \E th \in Threads : FlushRequeueLock(th)
  \/ \E th \in Threads : FlushRequeue(th)

Timer == TimerFire \/ TimerStart

Startup == \E a \in env.initArgs : initLogging(a)

Abort == \E w \in Workers : FatalAbort(w)

Next == Startup \/ Produce \/ Flush \/ Timer \/ Abort

NextFaults == Startup \/ Produce \/ Flush \/ FlushFailure \/ Timer \/ Abort

NextSingle == Startup \/ Produce \/ Flush \/ Timer

NextRotate == Startup \/ Produce \/ Flush

NextRotateFaults == Startup \/ Produce \/ Flush \/ FlushFailure

\* the steps of flushBuffer when the file I/O of the timer's flush never
\* returns: the main thread takes the file lock and goes no further
FlushStuck ==
  \/ \E th \in Threads : FlushEntry(th)
  \/ \E th \in Threads : FlushDrain(th)
  \/ \E th \in Threads : FlushFileLock(th)
  \/ \E w \in Workers : FlushRotate(w)
  \/ \E w \in Workers : FlushWrite(w)
  \/ \E w \in Workers : FlushAverageLoad(w)
  \/ \E w \in Workers : FlushAverageStore(w)

NextStuck == Startup \/ Produce \/ FlushStuck \/ Timer

(* ------------------------------------------------------------------ *)
(* callErrorHandler step by step: M_errorHandlerMutex.lock(), the       *)
(* callback, unlock.  Inside flushBuffer it runs under the file lock.   *)
(* ------------------------------------------------------------------ *)
\* rotateLogFiles meets a failing operation and calls callErrorHandler;
\* the file-system effect of the pass is taken at once, the thread is
\* left in front of M_errorHandlerMutex.lock() with the file lock held
FlushRotateReport(th) ==
  /\ pc[th] = "fb_rotate"
  /\ ~crashed
  /\ faults < MaxFaults
  /\ \E o \in RotateOps(dir) :
     \E d \in env.durations :
       LET r == rotateLogFiles(dir, m_logFileName, m_maxLogFiles,
                               m_maxLogFileSize, {o})
       IN /\ Effective(dir, m_logFileName, m_maxLogFiles,
                       m_maxLogFileSize, {o})
          /\ r.errs > 0
          /\ faults' = faults + 1
          /\ failedOps' = failedOps \cup {o[1]}
          /\ rotated' = r.rotated
          /\ errors' = errors + r.errs
          /\ dir' = r.dir
          /\ m_logFileName' = r.name
          /\ removedLines' = removedLines \cup r.removed
          /\ m_logRotationTime' =
               IF r.ok THEN RotationAverage(m_logRotationTime, d, firstTime)
               ELSE m_logRotationTime
          /\ firstTime' = IF r.ok THEN FALSE ELSE firstTime
          /\ Goto(th, IF r.ok THEN "err_lock_ok" ELSE "err_lock_fail")
  /\ UNCHANGED <<cfgVars, samples, initVars, bufVars, timerVars, localVars,
                 inputVars, m_logBufferFlushTime, mutex, crashed, written,
                 appended, observed>>

\* logFile.open fails: callErrorHandler is called before the file lock is
\* released
FlushOpenReport(th) ==
  /\ pc[th] = "fb_write"
  /\ ~crashed
  /\ faults < MaxFaults
  /\ faults' = faults + 1
  /\ failedOps' = failedOps \cup {"open"}
  /\ errors' = errors + 1
  /\ Goto(th, "err_lock_fail")
  /\ UNCHANGED <<cfgVars, samples, initVars, fileVars, bufVars, timerVars,
                 localVars, inputVars, m_logBufferFlushTime, mutex, crashed,
                 written, appended, observed>>

\* M_errorHandlerMutex.lock()
ErrorLock(th) ==
  /\ pc[th] \in {"err_lock_ok", "err_lock_fail"}
  /\ ~crashed
  /\ Acquire(th, "error")
  /\ Goto(th, IF pc[th] = "err_lock_ok" THEN "err_ok" ELSE "err_fail")
  /\ UNCHANGED <<cfgVars, samples, initVars, fileVars, bufVars, timerVars,
                 localVars, inputVars, m_logBufferFlushTime, crashed, written,
                 appended, observed, errors, faults, failedOps>>

\* a slip: the failure path goes on to the requeue with the file lock held
ErrorCallHolding(th) ==
  /\ pc[th] \in {"err_ok", "err_fail"}
  /\ ~crashed
  /\ mutex' = [mutex EXCEPT !["error"] = None]
  /\ Goto(th, IF pc[th] = "err_ok" THEN "fb_write" ELSE "fb_requeue_lock")
  /\ UNCHANGED <<cfgVars, samples, initVars, fileVars, bufVars, timerVars,
                 localVars, inputVars, m_logBufferFlushTime, crashed, written,
                 appended, observed, errors, faults, failedOps>>

\* m_errorHandler(msg) returns, M_errorHandlerMutex.unlock(); the pass goes
\* on to the write, or, when the rotation or the open has failed,
\* m_logFileMutex.unlock() and the requeue follow
ErrorCall(th) ==
  /\ pc[th] \in {"err_ok", "err_fail"}
  /\ ~crashed
  /\ mutex' = IF pc[th] = "err_ok"
              THEN [mutex EXCEPT !["error"] = None]
              ELSE [mutex EXCEPT !["error"] = None, !["file"] = None]
  /\ Goto(th, IF pc[th] = "err_ok" THEN "fb_write" ELSE "fb_requeue_lock")
  /\ UNCHANGED <<cfgVars, samples, initVars, fileVars, bufVars, timerVars,
                 localVars, inputVars, m_logBufferFlushTime, crashed, written,
                 appended, observed, errors, faults, failedOps>>

\* a flush that reports a failure through callErrorHandler
ErrorReport ==
  \/ \E th \in Threads : FlushRotateReport(th)
  \/ \E th \in Threads : FlushOpenReport(th)
  \/ \E th \in Threads : ErrorLock(th)
  \/ \E th \in Threads : ErrorCall(th)

NextLocks ==
  Startup \/ Produce \/ Flush \/ FlushFailure \/ ErrorReport \/ Timer

\* every step of a thread inside messageHandler and flushBuffer
ThreadStep(th) ==
  \/ EnqueueLock(th) \/ EnqueueLine(th) \/ SendLock(th) \/ SendLog(th)
  \/ FlushEntry(th) \/ FlushDrain(th) \/ FlushFileLock(th)
  \/ FlushRotate(th) \/ FlushWrite(th)
  \/ FlushRequeueLock(th) \/ FlushRequeue(th)
  \/ FlushAverageLoad(th) \/ FlushAverageStore(th)

NextLive == Startup \/ Produce \/ Flush \/ FlushFailure \/ Timer

Configure == \E format \in Formats : setTimestampFormat(format)

NextFormat == Configure \/ Startup \/ Produce \/ Flush

\* producers, inline and timer flushes, no I/O failure
Spec == Init /\ [][Next]_vars

\* one producer and the timer, with injected I/O failures
SpecFaults == InitFaults /\ [][NextFaults]_vars

\* the timer is the only thread that flushes
SpecSingle == InitSingle /\ [][NextSingle]_vars

\* every configuration of levels, clean category and build
SpecPolicy == InitPolicy /\ [][Next]_vars

\* every directory, unbuffered
SpecRotate == InitRotate /\ [][NextRotate]_vars

\* every pair of minimum levels against every level of record
SpecLevels == InitLevels /\ [][Next]_vars

\* two producers, with and without buffering
SpecSync == InitSync /\ [][NextSingle]_vars

InitRotateFaults == InitWith(RotateDirs, {DefaultCfg}, RotateFaultsEnv)

InitStuck == InitWith({DirOf({}, 0)}, {DefaultCfg}, ProgressEnv)

InitLocks == InitWith(SystemDirs, {DefaultCfg}, LocksEnv)

InitLive == InitWith(SystemDirs, {DefaultCfg}, LiveEnv)

InitFormat == InitWith({DirOf({}, 0)}, {DefaultCfg}, RotateEnv)

InitAverage == InitWith({DirOf({}, 0)}, {DefaultCfg}, AverageEnv)

\* rotation passes in which a file operation fails
SpecRotateFaults == InitRotateFaults /\ [][NextRotateFaults]_vars

\* the file I/O of the timer's flush never returns; a thread that can
\* again and again take a step outside that I/O eventually takes it (a
\* lock that is released again and again is eventually won)
SpecStuck ==
  /\ InitStuck
  /\ [][NextStuck]_vars
  /\ \A w \in Workers : SF_vars(ThreadStep(w) /\ NextStuck)
  /\ WF_vars(FlushEntry(Main) \/ FlushDrain(Main))

\* producers, forced flushes and timer flushes, with failures reported
\* through callErrorHandler step by step
SpecLocks == InitLocks /\ [][NextLocks]_vars

\* the event loop of the main thread delivers the timer's events, a
\* rotation pass returns, and a thread inside messageHandler or
\* flushBuffer that can again and again take a step eventually takes it
SpecLive ==
  /\ InitLive
  /\ [][NextLive]_vars
  /\ WF_vars(Timer)
  /\ \A th \in Threads : SF_vars(pc[th] # "fb_rotate" /\ ThreadStep(th))
  /\ \A th \in Threads : []<>(pc[th] # "fb_rotate")

\* the timestamp format is configured, then one producer logs
SpecFormat == InitFormat /\ [][NextFormat]_vars

SpecAverage == InitAverage /\ [][NextSingle]_vars

(* ------------------------------------------------------------------ *)
(* Where a line is                                                     *)
(* ------------------------------------------------------------------ *)
Occurrences(q, id) == Cardinality({k \in 1..Len(q) : q[k].id = id})

InFlight(id) ==
  Cardinality({p \in UNION {{<<th, k>> : k \in 1..Len(doubleBuffer[th])} :
                              th \in Threads} :
                 doubleBuffer[p[1]][p[2]].id = id})

OnDisk(id) ==
  Cardinality({p \in UNION {{<<n, k>> : k \in 1..Len(dir[n].lines)} :
                              n \in DOMAIN dir} :
                 dir[p[1]].lines[p[2]].id = id})

\* in how many places the line is: the buffer, the drained batches, the
\* files, the files deleted by a rotation pass
Places(id) ==
  Occurrences(m_logBuffer, id) + InFlight(id) + OnDisk(id)
    + (IF id \in removedLines THEN 1 ELSE 0)

EnqueuedIds == {enqueued[k] : k \in 1..Len(enqueued)}

\* the position of an enqueued line in the order of the enqueues
EnqueuePosition(id) == CHOOSE k \in 1..Len(enqueued) : enqueued[k] = id

LogFiles == {n \in DOMAIN dir : MatchesPattern(n)}

Indices == {Postfix(n) : n \in {m \in DOMAIN dir : PostfixOk(m)}}

\* q ends with t
EndsWith(q, t) ==
  Len(t) <= Len(q) /\ SubSeq(q, Len(q) - Len(t) + 1, Len(q)) = t

(* ------------------------------------------------------------------ *)
(* Properties                                                          *)
(* ------------------------------------------------------------------ *)

\* C1: with a single flusher and no I/O failure, when a flush has written,
\* the lines appended so far are exactly the lines enqueued up to its
\* drain, once each and in enqueue order; the batch of this flush is the
\* tail of the active file; the buffer holds nothing but the lines
\* enqueued after the drain (none, when nothing was enqueued since).
C1_FlushWritesEnqueuedInOrder ==
  \A th \in Threads :
    pc[th] = "fb_ema_load" =>
      /\ written = SubSeq(enqueued, 1, drainMark[th])
      /\ Ids(m_logBuffer) = SubSeq(enqueued, drainMark[th] + 1, Len(enqueued))
      /\ EndsWith(written, Ids(appended[th]))
      /\ mainLogFileName \in DOMAIN dir
      /\ EndsWith(dir[mainLogFileName].lines, appended[th])
      /\ doubleBuffer[th] = <<>>

\* C1 witness: a flush has just written a batch of two or more lines, all
\* that was enqueued, and the buffer is empty.
C1_Witness ==
  /\ pc[Main] = "fb_ema_load"
  /\ Len(appended[Main]) >= 2
  /\ written = enqueued
  /\ m_logBuffer = <<>>

\* C2: the order of the lines in a file is the order in which their
\* enqueues took the buffer lock.
C2_DiskOrderIsEnqueueOrder ==
  \A n \in DOMAIN dir :
    \A i, j \in 1..Len(dir[n].lines) :
      i < j => EnqueuePosition(dir[n].lines[i].id)
                 < EnqueuePosition(dir[n].lines[j].id)

\* C3: without I/O failure every enqueued line is at all times in exactly
\* one place (the buffer, one flusher's drained batch, a file, or a file
\* that a rotation pass deleted), and a line that was not enqueued is
\* nowhere.
C3_EachLineInOnePlace ==
  faults = 0 =>
    \A id \in 1..(nextId - 1) :
      Places(id) = IF id \in EnqueuedIds THEN 1 ELSE 0

\* C3 witness: a line was enqueued after the timer's drain and before its
\* write, so one line is in the drained batch and another in the buffer.
C3_Witness ==
  /\ pc[Main] = "fb_write"
  /\ doubleBuffer[Main] # <<>>
  /\ m_logBuffer # <<>>
  /\ drainMark[Main] < Len(enqueued)

\* C4: a Fatal record that messageHandler has handled up to the qFatal
\* re-emit was enqueued, whatever the levels and the clean category.
C4_FatalAlwaysEnqueued ==
  \A w \in Workers :
    (rec[w].type = "Fatal" /\ pc[w] \in {"fatal", "aborted"})
      => rec[w].line.id \in EnqueuedIds

\* C5: once the forced flushBuffer(true) of a Critical or Fatal record has
\* returned (the producer is at sendLog or at the qFatal re-emit), the
\* record's line has been appended to the file.
C5_ForcedFlushWaits ==
  \A w \in Workers :
    (/\ faults = 0
     /\ rec[w].type \in {"Critical", "Fatal"}
     /\ rec[w].line.id \in EnqueuedIds
     /\ pc[w] \in {"send_lock", "send", "fatal", "aborted"})
      => rec[w].line.id \in {written[k] : k \in 1..Len(written)}

\* C6: after initLogging has returned true, whenever no rotation or write
\* is in progress, the directory holds at most max(maxFiles, 2) files that
\* match the log pattern, and the file with index 0 is one of them.
C6_FileCountWithinLimit ==
  (handlerInstalled /\ faults = 0 /\ mutex["file"] = None) =>
    /\ Cardinality(LogFiles) <= m_maxLogFiles
    /\ mainLogFileName \in DOMAIN dir

\* C7: after a rotation pass that renamed files, the indices of the files
\* in the directory are 0..k with no gap.
C7_IndicesContiguous ==
  (rotated /\ faults = 0) => Indices = 0..(Cardinality(Indices) - 1)

\* C8: a flush that fails at rotateLogFiles or at the open leaves, when it
\* returns, the buffer holding its drained batch in order followed by
\* every line enqueued since its drain, and has written nothing.
C8_RequeueKeepsEverything ==
  [][\A th \in Threads :
       (pc[th] = "fb_requeue" /\ pc'[th] # "fb_requeue") =>
         /\ Ids(m_logBuffer') =
              Ids(doubleBuffer[th])
                \o SubSeq(enqueued, drainMark[th] + 1, Len(enqueued))
         /\ written' = written]_vars

\* C9: when the only I/O failures are failed writes, no enqueued line is
\* lost: each is in the buffer, in a drained batch, in a file, or in a
\* file that a rotation pass deleted.
C9_WriteFailureLosesNothing ==
  failedOps \subseteq {"write"} =>
    \A id \in EnqueuedIds : Places(id) >= 1

\* C10: when flushBuffer is about to append its batch (rotateLogFiles has
\* returned true under the file lock), the active file exists and is
\* strictly below the maximum file size.
C10_AppendBelowLimit ==
  \A th \in Threads :
    pc[th] = "fb_write" =>
      /\ m_logFileName = mainLogFileName
      /\ m_logFileName \in DOMAIN dir
      /\ dir[m_logFileName].size < m_maxLogFileSize

\* C10 witness: the previous flush took the active file to the limit, and
\* this flush has rotated: the full file is at index 1 with its lines and
\* the batch is about to go into an empty index 0.
C10_Witness ==
  \E th \in Threads :
    /\ pc[th] = "fb_write"
    /\ rotated
    /\ LogName(1) \in DOMAIN dir
    /\ dir[LogName(1)].lines # <<>>
    /\ dir[LogName(1)].size >= m_maxLogFileSize
    /\ dir[mainLogFileName].size = 0

(* ------------------------------------------------------------------ *)
(* A rotation pass, seen from the step that runs it                    *)
(* ------------------------------------------------------------------ *)
\* this step is a call of rotateLogFiles: by initLogging, once the
\* directory was found writable, or by flushBuffer under the file lock
RotationCall ==
  \/ pc[Main] = "start" /\ m_logDirSet'
  \/ \E th \in Threads : pc[th] = "fb_rotate" /\ pc'[th] # "fb_rotate"

\* what the pass of this step does when no file operation fails
ThisPass ==
  rotateLogFiles(dir, m_logFileName, m_maxLogFiles, m_maxLogFileSize, {})

\* the index-0 file exists under its name and is below the maximum size
ActiveFileFine ==
  /\ mainLogFileName \in DOMAIN dir
  /\ dir[mainLogFileName].size < m_maxLogFileSize

\* C11: a call of rotateLogFiles made while the index-0 file exists and is
\* below the maximum size renames no file and deletes no file: it leaves
\* the directory as it was, whether the current file name is set or empty.
C11_RotationNoOp ==
  [][(RotationCall /\ ActiveFileFine /\ faults' = faults) => dir' = dir]_vars

\* C11, amended: a call of rotateLogFiles made with the current file name
\* set to the main name, while that file exists and is below the maximum
\* size, leaves the directory as it was, whatever other files it holds.
C11_RotationNoOpWhenNameSet ==
  [][(RotationCall /\ ActiveFileFine /\ m_logFileName = mainLogFileName)
       => dir' = dir]_vars

\* C11 witness: a flush has called rotateLogFiles on a directory that holds
\* more log files than the limit, and all of them are still there.
C11_Witness ==
  \E th \in Threads :
    /\ pc[th] = "fb_write"
    /\ ~rotated
    /\ Cardinality(LogFiles) > m_maxLogFiles
    /\ ActiveFileFine

FlushPositions ==
  {"fb_entry", "fb_drain", "fb_file_lock", "fb_rotate", "fb_write",
   "fb_requeue_lock", "fb_requeue", "fb_ema_load", "fb_ema_store"}

\* C12: initLogging enables buffering exactly when the flush interval is
\* 1000 ms or more; without buffering, a record that was enqueued is in the
\* file when its messageHandler call returns; with buffering, only a
\* Critical or Fatal record makes its producer flush inline.
C12_UnbufferedIsSynchronous ==
  [][/\ \A a \in env.initArgs :
          (initLogging(a) /\ handlerInstalled')
            => m_logBufferEnabled' = (a.flushTime >= MinFlushTime)
     /\ \A w \in Workers :
          (~m_logBufferEnabled /\ pc[w] = "send" /\ pc'[w] = "idle")
            => \A id \in EnqueuedIds :
                 id = rec[w].line.id => OnDisk(id)' = 1
     /\ \A w \in Workers :
          (m_logBufferEnabled /\ pc'[w] \in FlushPositions)
            => rec'[w].type \in {"Critical", "Fatal"}]_vars

\* the total order Debug < Info < Warning < Critical < Fatal
Rank(level) ==
  CASE level = "Debug" -> 0
    [] level = "Info" -> 1
    [] level = "Warning" -> 2
    [] level = "Critical" -> 3
    [] level = "Fatal" -> 4

\* C13: for all 25 pairs of severities levelGreaterOrEqual(level, minLevel)
\* is true exactly when level >= minLevel in the order Debug < Info <
\* Warning < Critical < Fatal; hence a non-Fatal record goes to the enqueue
\* exactly when its level is at or above the minimum file level, and is
\* written to the console exactly when it is at or above the minimum
\* output level.
C13_LevelOrder ==
  /\ \A level, minLevel \in Levels :
       levelGreaterOrEqual(level, minLevel) = (Rank(level) >= Rank(minLevel))
  /\ \A w \in Workers :
       (rec[w].type \in Levels \ {"Fatal"} /\ m_cleanLogCategory = "")
         => /\ pc[w] \in {"enq_lock", "enq"}
                 => Rank(rec[w].type) >= Rank(m_minOutFileLevel)
            /\ (pc[w] = "send_lock" /\ rec[w].line.id \notin EnqueuedIds)
                 => Rank(rec[w].type) < Rank(m_minOutFileLevel)
            /\ rec[w].line.id \in console
                 <=> Rank(rec[w].type) >= Rank(m_minOutLevel)

\* C13 witness: a Warning record was let through a minimum file level of
\* Info and kept from the console by a minimum output level of Critical.
C13_Witness ==
  /\ rec["w1"].type = "Warning"
  /\ m_minOutFileLevel = "Info"
  /\ m_minOutLevel = "Critical"
  /\ pc["w1"] = "enq"
  /\ rec["w1"].line.id \notin console

\* the record with this id is in its producer's hand, before the enqueue
BeforeEnqueue(id) ==
  \E w \in Workers : rec[w].line.id = id /\ pc[w] \in {"enq_lock", "enq"}

\* what decides the enqueue, the minimum output level not being part of it
EnqueueExpected(r) ==
  /\ ~(ndebug /\ r.type = "Debug")
  /\ m_cleanLogCategory = "" \/ r.category # m_cleanLogCategory \/ m_cleanToFile
  /\ r.type = "Fatal" \/ Rank(r.type) >= Rank(m_minOutFileLevel)

\* C14: a non-Fatal record whose level is below the minimum file level is
\* never enqueued and is in no file; whether a record is enqueued is
\* decided by the build, the clean category and the minimum file level
\* alone, whatever the minimum output level.
C14_BelowFileLevelNeverEnqueued ==
  \A id \in 1..Len(records) :
    /\ (records[id].type # "Fatal"
        /\ Rank(records[id].type) < Rank(m_minOutFileLevel))
         => (id \notin EnqueuedIds /\ Places(id) = 0)
    /\ ~BeforeEnqueue(id)
         => (id \in EnqueuedIds <=> EnqueueExpected(records[id]))

\* C14 witness: an Info record was handled under a minimum file level of
\* Warning and a minimum output level of Debug: it went to the console and
\* to sendLog, and was not enqueued.
C14_Witness ==
  /\ Len(records) >= 1
  /\ records[1].type = "Info"
  /\ m_minOutFileLevel = "Warning"
  /\ m_minOutLevel = "Debug"
  /\ m_cleanLogCategory = ""
  /\ 1 \in console
  /\ 1 \in observed
  /\ 1 \notin EnqueuedIds

(* ------------------------------------------------------------------ *)
(* The average flush time                                               *)
(* ------------------------------------------------------------------ *)
\* no flush is between reading and storing the average
AverageSettled == \A th \in Threads : pc[th] # "fb_ema_store"

\* the average after the first and after the second completed flush
ExpectedAverage(s) ==
  IF Len(s) = 0 THEN 0
  ELSE IF Len(s) = 1 THEN s[1]
  ELSE (s[1] * 9 + s[2] * 1) \div 10

\* C15: after the first completed flush the average flush time is that
\* flush's duration d1, after the second completed flush of duration d2 it
\* is d1*0.9 + d2*0.1, and the value stays at its initial 0 until a flush
\* has written a batch.
C15_FlushTimeAverage ==
  /\ (AverageSettled /\ Len(samples) <= 2)
       => m_logBufferFlushTime = ExpectedAverage(samples)
  /\ m_logBufferFlushTime # 0 => written # <<>>

(* ------------------------------------------------------------------ *)
(* Configuring the timestamp format                                     *)
(* ------------------------------------------------------------------ *)
\* the text of the call's own format, parsed back with that format
RoundTrip(c) == fromString(toString(c.now, c.format), c.format)

\* C16: setTimestampFormat called with an empty format, or with a format
\* whose format-then-parse round trip is invalid, returns false and leaves
\* the configured timestamp format as it was; the configured format
\* changes only in a call that returns true, whose format is not empty
\* and survives the round trip, and it becomes that format in brackets.
C16_BadFormatRejected ==
  [][lastFormatCall' # lastFormatCall =>
       LET c == lastFormatCall'
       IN /\ (c.format = <<>> \/ ~RoundTrip(c).valid)
               => (c.result = "false"
                   /\ m_logMessageFormat' = m_logMessageFormat)
          /\ (c.format # <<>> /\ RoundTrip(c).valid)
               => (c.result = "true"
                   /\ m_logMessageFormat' = Bracketed(c.format))
          /\ RoundTrip(c).valid
               => (RoundTrip(c).hour \in {-1, c.now.hour}
                   /\ RoundTrip(c).minute \in {-1, c.now.minute})]_vars

\* an accepted format is in force, and a later call with a format that
\* does not survive the round trip was rejected
C16_Witness ==
  /\ lastFormatCall.result = "false"
  /\ lastFormatCall.format = <<"H", "mm">>
  /\ lastFormatCall.now.hour = 1
  /\ m_logMessageFormat = Bracketed(<<"HH", "mm">>)

(* ------------------------------------------------------------------ *)
(* Which files a rotation pass deletes, keeps and renames               *)
(* ------------------------------------------------------------------ *)
\* the numerically suffixed log files of a directory
Numbered(d) == {n \in DOMAIN d : PostfixOk(n)}

\* the names, before the pass, of the numbered files that the pass kept
Survivors(p) == {p.origin[x] : x \in DOMAIN p.dir} \cap Numbered(dir)

\* the numbered files that the pass deleted
Deleted(p) == Numbered(dir) \ Survivors(p)

\* C17: a rotation pass in which no file operation fails deletes the
\* highest-index files first: every numbered file it deletes had a higher
\* index than every numbered file it keeps, the files it keeps hold what
\* they held, and a pass that made a new file leaves no more numbered files
\* than the limit; with a limit of 2 they are those of index 0 and 1.
C17_OldestDeletedFirst ==
  [][(RotationCall /\ faults' = faults) =>
       LET p == ThisPass
       IN /\ dir' = p.dir
          /\ \A n \in Deleted(p) : \A m \in Survivors(p) :
               Postfix(m) < Postfix(n)
          /\ \A x \in DOMAIN p.dir :
               p.origin[x] # NoName => dir'[x] = dir[p.origin[x]]
          /\ p.rotated =>
               /\ Cardinality(Numbered(dir')) <= m_maxLogFiles
               /\ m_maxLogFiles = 2 =>
                    Numbered(dir') = {LogName(0), LogName(1)}]_vars

\* C17 witness: with a limit of 2, three lines that each fill a file were
\* written to a directory whose active file was full: three passes made a
\* new file, the files of index 0 and 1 hold lines 3 and 2, and line 1,
\* which was at index 1 before the third pass, is gone.
C17_Witness ==
  /\ m_maxLogFiles = 2
  /\ DOMAIN dir = {LogName(0), LogName(1)}
  /\ Ids(dir[LogName(0)].lines) = <<3>>
  /\ Ids(dir[LogName(1)].lines) = <<2>>
  /\ 1 \in removedLines

\* C18: a rotation pass in which no file operation fails keeps the
\* relative age order of the files it keeps: of two numbered files that
\* both survive, the one with the lower index before the pass has the lower
\* index after it, and the file the pass creates is the one of index 0.
C18_AgeOrderKept ==
  [][(RotationCall /\ faults' = faults) =>
       LET p == ThisPass
       IN /\ dir' = p.dir
          /\ \A x, y \in Numbered(p.dir) :
               (/\ p.origin[x] \in Numbered(dir)
                /\ p.origin[y] \in Numbered(dir)
                /\ Postfix(p.origin[x]) < Postfix(p.origin[y]))
                 => Postfix(x) < Postfix(y)
          /\ \A x \in DOMAIN p.dir :
               p.origin[x] = NoName => x = mainLogFileName]_vars

\* C19: in the renaming phase of a rotation pass in which no file
\* operation is made to fail, no rename targets a name that another file
\* still holds: the temporary-name pass is taken whenever the renames
\* would collide, so no rename fails because its target exists and the
\* pass reports no error.
C19_NoRenameCollision ==
  [][(RotationCall /\ faults' = faults) =>
       LET p == ThisPass
       IN /\ dir' = p.dir
          /\ p.clash = 0
          /\ p.failed = {}
          /\ p.errs = 0]_vars

(* ------------------------------------------------------------------ *)
(* A rotation pass in which a rename fails                              *)
(* ------------------------------------------------------------------ *)
\* the renames that a pass over the directory may see fail
RenameFaults == {{o} : o \in {r \in RotateOps(dir) : r[1] = "rename"}}

\* the pass of this step when the operations in F fail
PassWith(F) ==
  rotateLogFiles(dir, m_logFileName, m_maxLogFiles, m_maxLogFileSize, F)

\* this step is a rotation pass in which exactly the rename in F failed
RenameFailedIn(F) ==
  /\ RotationCall
  /\ faults' = faults + 1
  /\ failedOps' = failedOps \cup {"rename"}
  /\ Effective(dir, m_logFileName, m_maxLogFiles, m_maxLogFileSize, F)
  /\ dir' = PassWith(F).dir
  /\ errors' = errors + PassWith(F).errs

\* C20: when a rename fails in a rotation pass, in the temporary-name step
\* or in the renumbering step, the error is reported, the pass goes on and
\* succeeds, the file whose rename failed is afterwards under the name it
\* had before the pass and holds what it held, and the index-0 file exists.
C20_RenameFailureHarmless ==
  [][\A F \in RenameFaults :
       RenameFailedIn(F) =>
         LET p == PassWith(F)
         IN /\ p.errs >= 1
            /\ p.ok
            /\ mainLogFileName \in DOMAIN dir'
            /\ m_logFileName' = mainLogFileName
            /\ \A n \in p.failed :
                 /\ n \in DOMAIN dir'
                 /\ p.origin[n] = n
                 /\ dir'[n] = dir[n]]_vars

(* ------------------------------------------------------------------ *)
(* A rotation pass that cannot create the index-0 file                  *)
(* ------------------------------------------------------------------ *)
TouchFault == {<<"touch", mainLogFileName>>}

\* this step is a rotation pass whose only failure is that of logFileTouch
TouchFailed ==
  /\ RotationCall
  /\ faults' = faults + 1
  /\ Effective(dir, m_logFileName, m_maxLogFiles, m_maxLogFileSize,
               TouchFault)
  /\ dir' = PassWith(TouchFault).dir
  /\ mainLogFileName \notin DOMAIN dir'

\* what the claim says of such a step, but for the value left in the
\* current file name: the error is reported, the call returns false (the
\* flush goes to its requeue with its batch, initLogging installs no
\* handler), and the next call does not take the fast path
TouchFailureHandled ==
  /\ errors' = errors + 1
  /\ \A th \in Threads :
       pc[th] = "fb_rotate" =>
         /\ pc'[th] = "fb_requeue_lock"
         /\ doubleBuffer'[th] = doubleBuffer[th]
         /\ doubleBuffer[th] # <<>>
         /\ mutex'["file"] = None
  /\ pc[Main] = "start" => (~handlerInstalled' /\ pc'[Main] = "start")
  /\ written' = written
  /\ \A size \in {m_maxLogFileSize, m_maxLogFileSize'} :
       ~KeepCurrentFile(dir', m_logFileName', size)

\* no line is lost or doubled while the only failures are those of
\* logFileTouch
TouchFailureKeepsLines ==
  failedOps \subseteq {"touch"} =>
    \A id \in EnqueuedIds : Places(id) = 1

\* C21: when creating the index-0 file fails, rotateLogFiles reports the
\* error, returns false and leaves the current file name empty, the
\* enclosing flush requeues its drained lines, the next call does not take
\* the fast path, and no buffered line is lost.
C21_TouchFailureLeavesNameEmpty ==
  [][/\ TouchFailed => (TouchFailureHandled /\ m_logFileName' = NoName)
     /\ TouchFailureKeepsLines /\ TouchFailureKeepsLines']_vars

\* C21, amended: as above, but the current file name is left set to the
\* main name, whose file does not exist, which is what makes the next call
\* leave the fast path.
C21_TouchFailureRetried ==
  [][/\ TouchFailed =>
          /\ TouchFailureHandled
          /\ m_logFileName' = mainLogFileName
          /\ m_logFileName' \notin DOMAIN dir'
     /\ TouchFailureKeepsLines /\ TouchFailureKeepsLines']_vars

\* C21 witness: the directory held an active file when logging started
\* (the file now at index 1 is larger than the lines written to it), so
\* initLogging created no file; a flush renamed the full active file and
\* could not create the new one, requeued its batch, and a later flush has
\* written every enqueued line.
C21_Witness ==
  /\ failedOps = {"touch"}
  /\ errors = 1
  /\ LogName(1) \in DOMAIN dir
  /\ dir[LogName(1)].size > Bytes(dir[LogName(1)].lines)
  /\ dir[LogName(1)].lines # <<>>
  /\ mainLogFileName \in DOMAIN dir
  /\ dir[mainLogFileName].lines # <<>>
  /\ Len(enqueued) >= 2
  /\ \A id \in EnqueuedIds : OnDisk(id) = 1

(* ------------------------------------------------------------------ *)
(* The flush timer and the flushes in progress                          *)
(* ------------------------------------------------------------------ *)
\* th has drained the buffer and has not yet closed the file
BetweenDrainAndClose(th) ==
  pc[th] \in {"fb_file_lock", "fb_rotate", "fb_write"}

\* C22: with buffering enabled the flush timer becomes armed only when no
\* flushBuffer call, of any thread, is between its drain and its file
\* close, and the timer's own flush never runs while another thread's
\* flush is there.
C22_TimerRearmedAfterFlush ==
  [][/\ (~timerActive /\ timerActive') =>
          \A th \in Threads : ~BetweenDrainAndClose(th)'
     /\ (pc[Main] = "idle" /\ pc'[Main] = "fb_entry") =>
          \A th \in Threads : ~BetweenDrainAndClose(th)]_vars

(* ------------------------------------------------------------------ *)
(* The file lock                                                        *)
(* ------------------------------------------------------------------ *)
\* th is in the section of flushBuffer that rotates, opens, writes and
\* closes
InFileSection(th) == pc[th] \in {"fb_rotate", "fb_write"}

\* C23: at most one thread at a time is in the rotation-and-write section
\* of flushBuffer, and that thread holds the file lock, for any
\* interleaving of timer and forced flushes.
C23_OneFlushInFileSection ==
  /\ Cardinality({th \in Threads : InFileSection(th)}) <= 1
  /\ \A th \in Threads : InFileSection(th) => mutex["file"] = th

\* C23 witness: the timer's flush is about to write its batch while a
\* producer's forced flush, with a batch of its own, waits for the file
\* lock.
C23_Witness ==
  /\ pc[Main] = "fb_write"
  /\ doubleBuffer[Main] # <<>>
  /\ \E w \in Workers :
       pc[w] = "fb_file_lock" /\ doubleBuffer[w] # <<>> /\ force[w]

\* C24: a step that creates, renames or deletes a log file, and any step
\* that runs a rotation pass, the one of initLogging included, is taken by
\* a thread that holds the file lock and is in rotateLogFiles.
C24_RotationUnderFileLock ==
  [][(RotationCall \/ DOMAIN dir' # DOMAIN dir) =>
       \E th \in Threads : mutex["file"] = th /\ pc[th] = "fb_rotate"]_vars

\* the pass is the one of flushBuffer, whose thread holds the file lock
PassUnderFileLock ==
  \E th \in Threads : mutex["file"] = th /\ pc[th] = "fb_rotate"

\* the pass is the one of initLogging: no lock is held, no handler is
\* installed, no thread is logging or flushing
PassOfInit ==
  /\ pc[Main] = "start"
  /\ mutex["file"] = None
  /\ ~handlerInstalled
  /\ \A w \in Workers : pc[w] = "idle"

\* C24, amended: a log file is created, renamed or deleted only by a
\* rotation pass; the pass of flushBuffer runs while its thread holds the
\* file lock, and the pass of initLogging runs without the lock, before
\* the message handler is installed.
C24_RotationLockedButAtInit ==
  [][/\ DOMAIN dir' # DOMAIN dir => RotationCall
     /\ RotationCall => (PassUnderFileLock \/ PassOfInit)]_vars

\* C24 witness: a flush that holds the file lock has renamed the full
\* active file and made a new one, while another thread waits for the lock.
C24_Witness ==
  \E th \in Threads :
    /\ pc[th] = "fb_write"
    /\ mutex["file"] = th
    /\ rotated
    /\ LogName(1) \in DOMAIN dir
    /\ dir[LogName(1)].lines # <<>>
    /\ \E o \in Threads \ {th} : pc[o] = "fb_file_lock"

(* ------------------------------------------------------------------ *)
(* The buffer lock and a flush that is stuck in file I/O                *)
(* ------------------------------------------------------------------ *)
\* C25: the thread that holds the buffer lock neither holds nor waits for
\* the file lock and is not in file I/O; and a producer that has a record
\* below Critical to enqueue, with buffering, completes its enqueue and
\* returns, even when the timer's flush never comes back from its file
\* I/O.
C25_EnqueueNeverWaitsForFileIO ==
  /\ [](\A th \in Threads :
          mutex["buffer"] = th =>
            /\ mutex["file"] # th
            /\ pc[th] \in {"enq", "fb_drain", "fb_requeue"})
  /\ \A w \in Workers : \A i \in 1..MaxLines :
       (/\ pc[w] = "enq_lock"
        /\ rec[w].line.id = i
        /\ rec[w].type \notin {"Critical", "Fatal"})
         ~> (pc[w] = "idle" /\ i \in EnqueuedIds /\ i \in observed)

\* C25 witness: the timer's flush holds the file lock and is in its file
\* I/O, a forced flush waits for the file lock with its batch, and the
\* other producer has enqueued an Info record since and has returned.
C25_Witness ==
  /\ pc[Main] = "fb_rotate"
  /\ mutex["file"] = Main
  /\ pc["w1"] = "fb_file_lock"
  /\ doubleBuffer["w1"] # <<>>
  /\ pc["w2"] = "idle"
  /\ m_logBuffer # <<>>
  /\ \A k \in 1..Len(m_logBuffer) : m_logBuffer[k].id \in observed

(* ------------------------------------------------------------------ *)
(* Every enqueued line reaches a file                                   *)
(* ------------------------------------------------------------------ *)
WrittenIds == {written[k] : k \in 1..Len(written)}

\* C26: with buffering, under fair scheduling of the timer and with I/O
\* failures that stop, every enqueued line is eventually appended to a log
\* file, and after every flushBuffer call the timer is armed or about to
\* be, so that a flush attempt follows.
C26_EnqueuedEventuallyWritten ==
  /\ \A i \in 1..MaxLines : (i \in EnqueuedIds) ~> (i \in WrittenIds)
  /\ [](handlerInstalled =>
          (timerActive \/ startQueued
             \/ pc[Main] \in FlushPositions))

(* ------------------------------------------------------------------ *)
(* Lock order                                                           *)
(* ------------------------------------------------------------------ *)
\* the lock the thread is about to take, None when it is about to take
\* none
Requested(th) ==
  IF pc[th] \in {"enq_lock", "fb_entry", "fb_requeue_lock"} THEN "buffer"
  ELSE IF pc[th] = "send_lock" THEN "handler"
  ELSE IF pc[th] = "fb_file_lock" THEN "file"
  ELSE IF pc[th] \in {"err_lock_ok", "err_lock_fail"} THEN "error"
  ELSE None

Held(th) == {l \in Locks : mutex[l] = th}

Blocked(th) == Requested(th) # None /\ mutex[Requested(th)] # None

\* C27: a thread that requests a lock holds none, except that the error
\* lock is requested with the file lock (and only it) held; a thread
\* outside messageHandler and flushBuffer holds no lock; so whenever a
\* thread waits for a lock, the holder of that lock is not waiting:
\* no interleaving of producers, forced flushes and timer flushes
\* deadlocks.
C27_LockOrderNoDeadlock ==
  ~crashed =>
    /\ \A th \in Threads :
         /\ Requested(th) \in {"buffer", "file", "handler"} => Held(th) = {}
         /\ Requested(th) = "error" => Held(th) \subseteq {"file"}
         /\ pc[th] \in {"start", "idle"} => Held(th) = {}
         /\ "buffer" \in Held(th) => Held(th) = {"buffer"}
         /\ "handler" \in Held(th) => Held(th) = {"handler"}
         /\ "error" \in Held(th) => Requested(th) = None
    /\ \A th \in Threads :
         Blocked(th) => ~Blocked(mutex[Requested(th)])

C27_Witness ==
  /\ ~crashed
  /\ Held("w1") = {"file", "error"}
  /\ doubleBuffer["w1"] # <<>>
  /\ Held(Main) = {"buffer"}
  /\ Blocked("w2")

====
